---------------------------- MODULE Spec2Model ----------------------------
(***************************************************************************)
(* Model of the agent orchestration loop of llm-skill:                     *)
(*   src/src/agent/graph.py      ReActAgent.run, the agent graph it builds *)
(*   src/src/cli/callbacks.py    CLICallback.request_approval              *)
(*   src/src/agent/state.py      MainAgentState (the messages reducer)     *)
(*                                                                         *)
(* One thread (one ReActAgent instance, one thread_id).  The thread's      *)
(* checkpointed history is `messages`; the agent graph built by            *)
(* create_agent (model -> HumanInTheLoopMiddleware.after_model -> tools)   *)
(* is stepped node by node while a stream of run() is open.                *)
(*                                                                         *)
(* Beside the main loop:                                                   *)
(*   src/src/agent/middleware/bash.py        the bash tool                 *)
(*   src/src/agent/subagent/data_analysis.py run_script, _run_subagent     *)
(* The texts the two script runners return are checked on single           *)
(* invocations (SpecTool); the delegations running on the one              *)
(* DataAnalysisSubagent of the agent, with the tracker list, the script    *)
(* files and the subagent thread they share, are stepped in SpecSub.       *)
(*   src/src/agent/middleware/skill.py       the skill catalog (SpecSkill) *)
(*   src/src/cli/runner.py                   the CLI loop (SpecCli)        *)
(* and the pre-analysis of a data file, _analyze_dataframe (SpecFrame).    *)
(***************************************************************************)
EXTENDS Integers, Sequences, FiniteSets, TLC

(* ------------------------------ bounds --------------------------------- *)
MaxRuns == 2          \* run() calls on the thread
MaxModelCalls == 3    \* model calls on the thread
MaxBatch == 2         \* tool calls in one model message
MaxCalls == 3         \* tool calls on the thread

(* ----------------------------- vocabulary ------------------------------ *)
Absent == "absent"                    \* a tool call whose args hold no 'command'
UnknownCommand == "Unknown Command"   \* graph.py:151
Commands == {"c1", "c2"}
NoExc == "none"

\* What the model may ask for in one tool call: name + the 'command' argument.
\* data_analysis stands for the tools the gate lets pass (view_skill and the
\* file search tools take the same path through the graph and always return;
\* data_analysis returns or raises).
CallKinds ==
  [name : {"bash"}, command : Commands \cup {Absent}]
    \cup [name : {"data_analysis"}, command : {Absent}]

\* The decision interface: questionary's select(...).ask() yields the chosen
\* value, or None when the prompt is cancelled.
Decisions == {"approve", "reject", "None"}

(* ------------------------------- state --------------------------------- *)
VARIABLES
  reducer,        \* which 'messages' annotation the resolved state schema got
  messages,       \* the thread's checkpointed message list
  node,           \* next node of the agent graph: model / after_model / tools / end
  interrupts,     \* unresolved interrupts of the thread's checkpoint
  pc,             \* position inside run(): idle / stream / extract / ask / resume / rstream
  command,        \* run()'s local `command`
  decision,       \* what the prompt of request_approval yielded
  approved,       \* run()'s local `approved`
  outcome,        \* how the last run() ended: none / returned / raised
  exc,            \* the exception a raised run() ended with
  runs,           \* run() calls so far
  modelCalls,     \* model calls so far
  nextId,         \* tool call ids handed out so far
  lastModelInput, \* the message list the latest model call received
  execLog,        \* tool call ids in the order their tool function was invoked
  approvalLog,    \* request_approval invocations: batch, command, returned value
  interruptLog,   \* batches for which an interrupt was raised, in order
  resumeLog       \* resumes applied by the gate: batch, decision type

\* One invocation of a script runner tool (bash or run_script) on its own.
VARIABLES
  tool,           \* the tool invoked: bash / run_script
  timeout,        \* the timeout the runner instance was configured with
  proc,           \* what subprocess.run did: exit / timeout / exception
  returned,       \* the tool function has returned
  result          \* the string it returned

toolVars == <<tool, timeout, proc, returned, result>>

\* The DataAnalysisSubagent instance of the agent and the delegations
\* (_run_subagent calls) running on it, one per worker slot of the tools node.
VARIABLES
  tempFiles,      \* self._temp_files, the tracker list
  disk,           \* the script files that exist
  nextPath,       \* names mkstemp handed out so far
  subThread,      \* latest checkpoint of thread "data_analysis_{id(self)}": its turns
  delegations,    \* data_analysis calls so far
  dpc,            \* per slot: position inside _run_subagent / run_script
  dcall,          \* per slot: which data_analysis call it runs (1st, 2nd, ...)
  dinfo,          \* per slot: what _analyze_dataframe returned
  dhist,          \* per slot: the turns in the messages of the running stream
  dinput,         \* per slot: the turns its latest model call received
  dmodel,         \* per slot: model calls of the delegation
  dmade,          \* per slot: script files the delegation created
  dpath,          \* per slot: run_script's local script_path
  dproc,          \* per slot: what subprocess.run did with the script
  dret,           \* per slot: the latest tool return, as seen when it returned
  dsusp,          \* per slot: the subagent stream ended in an interrupt
  dresult,        \* per slot: how _run_subagent ended: none / returned / raised
  dexit           \* per slot: the files and the tracker as seen when it ended

subVars == <<tempFiles, disk, nextPath, subThread, delegations, dpc, dcall, dinfo, dhist,
             dinput, dmodel, dmade, dpath, dproc, dret, dsusp, dresult, dexit>>

\* The skill catalog: the SkillManager of the SkillMiddleware and the files
\* it looks at.
VARIABLES
  skillsDir,      \* the skills_dir argument: unset (None) / missing / present
  descriptors,    \* per skill folder: what its SKILL.md is like, or absent
  globOrder,      \* the order in which glob("*/SKILL.md") yields the descriptors
  manager,        \* SkillManager(skills_dir): none / built / raised
  skills,         \* self.skills, its keys in insertion order
  called,         \* the latest call on the manager and what it returned
  reads           \* the files that call opened and read

skillVars == <<skillsDir, descriptors, globOrder, manager, skills, called, reads>>

\* The CLI loop of run_cli around the agent.
VARIABLES
  isNew,          \* _select_thread's is_new
  titleUpdated,   \* run_cli's local title_updated
  cpc,            \* position in the loop: prompt / run / title / touch / done
  query,          \* the query of this turn
  queries,        \* the queries of the session that were sent to the agent
  titleCalls,     \* the titles update_title was called with, in order
  storedTitle     \* the title in the conversation store

cliVars == <<isNew, titleUpdated, cpc, query, queries, titleCalls, storedTitle>>

\* One pre-analysis of a data file.
VARIABLES
  frame,          \* the DataFrame as loaded: its columns, each a list of cells
  privacyMode,    \* self.privacy_mode
  analysed,       \* _analyze_dataframe has returned
  info            \* the structure info it returned

frameVars == <<frame, privacyMode, analysed, info>>

\* What is stepped beside the agent, its tools and its delegations.
otherVars == <<skillVars, cliVars, frameVars>>

\* What the steps of the main loop leave alone.
offMain == <<toolVars, subVars, otherVars>>

mainVars == <<reducer, messages, node, interrupts, pc, command, decision, approved, outcome,
          exc, runs, modelCalls, nextId, lastModelInput, execLog, approvalLog,
          interruptLog, resumeLog>>

vars == <<mainVars, offMain>>

(* ------------------------------ messages ------------------------------- *)
HumanMsg == [type |-> "human", id |-> 0, calls |-> <<>>, call |-> 0, kind |-> "user"]
AIMsg(k, calls) == [type |-> "ai", id |-> k, calls |-> calls, call |-> 0, kind |-> "model"]
ToolMsg(c, kind) == [type |-> "tool", id |-> 0, calls |-> <<>>, call |-> c, kind |-> kind]

ToolCall(i, k) == [id |-> i, name |-> k.name, command |-> k.command]

RECURSIVE NumberedCalls(_, _)
\* Tool calls of one model message: kinds[j] gets id base + j.
NumberedCalls(kinds, base) ==
  IF kinds = <<>> THEN <<>>
  ELSE <<ToolCall(base + 1, Head(kinds))>> \o NumberedCalls(Tail(kinds), base + 1)

Range(s) == {s[i] : i \in DOMAIN s}


(* ----------------- the agent graph built by create_agent ---------------- *)
\* HumanInTheLoopMiddleware(interrupt_on={"bash": True}): the gated tool names.
InterruptOn == {"bash"}

IsAI(m) == m.type = "ai"

\* Index of the last model message (0 when there is none).
LastAIIndex(msgs) ==
  IF \E i \in DOMAIN msgs : IsAI(msgs[i])
  THEN CHOOSE i \in DOMAIN msgs :
         IsAI(msgs[i]) /\ \A j \in DOMAIN msgs : IsAI(msgs[j]) => j <= i
  ELSE 0

LastAI(msgs) == msgs[LastAIIndex(msgs)]

\* Ids of the tool messages that follow the last model message.
ToolMessageIds(msgs) ==
  {msgs[i].call : i \in {j \in DOMAIN msgs : j > LastAIIndex(msgs) /\ msgs[j].type = "tool"}}

\* The tool calls of the last model message that have no tool message yet.
PendingToolCalls(msgs) ==
  SelectSeq(LastAI(msgs).calls, LAMBDA c : c.id \notin ToolMessageIds(msgs))

\* The edge taken after after_model: leave the loop, run the pending tool
\* calls, or (every call already answered by an injected message) call the
\* model again.
ModelToTools(msgs) ==
  IF LastAI(msgs).calls = <<>> THEN "end"
  ELSE IF PendingToolCalls(msgs) # <<>> THEN "tools"
  ELSE "model"

\* The gate splits the calls of the last model message.
InterruptToolCalls(ai) == SelectSeq(ai.calls, LAMBDA c : c.name \in InterruptOn)
AutoApprovedToolCalls(ai) == SelectSeq(ai.calls, LAMBDA c : c.name \notin InterruptOn)

\* One action request per gated call, in the order the model returned them.
ActionRequest(c) ==
  [shape |-> "dict", hasargs |-> TRUE, args |-> "dict", command |-> c.command]

HITLRequest(gated) ==
  [value |-> "dict", key |-> TRUE,
   reqs |-> [i \in 1..Len(gated) |-> ActionRequest(gated[i])]]

\* A mutant of HITLInterrupts: one interrupt per gated call.
InterruptPerCall(ai) ==
  [i \in 1..Len(InterruptToolCalls(ai)) |->
     [batch |-> ai.id, value |-> HITLRequest(<<InterruptToolCalls(ai)[i]>>)]]

\* The gate raises ONE interrupt that carries every gated call of the batch.
HITLInterrupts(ai) ==
  <<[batch |-> ai.id, value |-> HITLRequest(InterruptToolCalls(ai))]>>

\* The model message as the gate rewrites it: auto-approved calls first, then
\* the gated calls in decision order (approved and rejected ones are both kept).
RevisedAI(ai) ==
  AIMsg(ai.id, AutoApprovedToolCalls(ai) \o InterruptToolCalls(ai))

\* The artificial tool messages of the decisions: one per rejected call.
RECURSIVE ArtificialToolMessages(_, _)
ArtificialToolMessages(gated, decisions) ==
  IF gated = <<>> THEN <<>>
  ELSE (IF Head(decisions) = "reject"
        THEN <<ToolMsg(Head(gated).id, "rejection")>> ELSE <<>>)
       \o ArtificialToolMessages(Tail(gated), Tail(decisions))

\* The state update {"messages": [last_ai_msg, *artificial]} of the gate under
\* the reducer of the resolved schema.  last_ai_msg is mutated in place, so
\* the stored message changes under both reducers; add_messages replaces the
\* message of the same id, operator.add appends it once more.
ApplyGateUpdate(red, msgs, ai, artificial) ==
  LET edited == [i \in DOMAIN msgs |->
                   IF IsAI(msgs[i]) /\ msgs[i].id = ai.id THEN ai ELSE msgs[i]]
  IN  IF red = "add_messages" THEN edited \o artificial
      ELSE edited \o <<ai>> \o artificial

\* A mutant of AfterInput: a new input leaves the unfinished interrupt pending.
KeepPending(pending) == pending

\* stream(initial_state): a new input on a thread discards the unfinished
\* tasks of the previous checkpoint, and with them the pending interrupt.
AfterInput(pending) == {}

(* ------------------------------- run() --------------------------------- *)
\* A mutant of ExtractCommand: the label is read from the last action request.
ExtractLastCommand(p) ==
  IF p.value # "dict" \/ ~p.key \/ p.reqs = <<>>
  THEN [exc |-> NoExc, command |-> UnknownCommand]
  ELSE LET r == p.reqs[Len(p.reqs)] IN
       IF r.shape # "dict" \/ (r.hasargs /\ r.args # "dict")
       THEN [exc |-> "TypeError", command |-> UnknownCommand]
       ELSE IF ~r.hasargs \/ r.command = Absent
       THEN [exc |-> NoExc, command |-> UnknownCommand]
       ELSE [exc |-> NoExc, command |-> r.command]

\* Lines 154-159: the command label from the first interrupt's value.  The
\* try block catches KeyError, IndexError and AttributeError only.
ExtractCommand(p) ==
  IF p.value # "dict" THEN [exc |-> NoExc, command |-> UnknownCommand]      \* no .get: AttributeError
  ELSE IF ~p.key THEN [exc |-> NoExc, command |-> UnknownCommand]           \* default []
  ELSE IF p.reqs = <<>> THEN [exc |-> NoExc, command |-> UnknownCommand]    \* falsy
  ELSE LET r == p.reqs[1] IN
       IF r.shape # "dict" THEN [exc |-> "TypeError", command |-> UnknownCommand]
       ELSE IF ~r.hasargs THEN [exc |-> NoExc, command |-> UnknownCommand]  \* KeyError 'args'
       ELSE IF r.args # "dict" THEN [exc |-> "TypeError", command |-> UnknownCommand]
       ELSE IF r.command = Absent THEN [exc |-> NoExc, command |-> UnknownCommand] \* KeyError 'command'
       ELSE [exc |-> NoExc, command |-> r.command]

\* A mutant of Approved: everything but an explicit "reject" approves.
ApprovedUnlessRejected(d) == d # "reject"

\* CLICallback.request_approval: return decision == "approve".
Approved(d) == d = "approve"

\* A mutant of ResumeDecisions: the resume always approves.
AlwaysApprove(ok) == <<"approve">>

\* Lines 164-182: the resume value run() sends, one decision.
ResumeDecisions(ok) == IF ok THEN <<"approve">> ELSE <<"reject">>

\* A mutant of RunResult: a final event without 'messages' returns normally.
ReturnAnyway(final) == [outcome |-> "returned", exc |-> NoExc]

\* Line 185: final_result["messages"][-1].content.  The last event of a stream
\* that ended in an interrupt has no 'messages' key.
RunResult(final) ==
  IF final = "interrupt" THEN [outcome |-> "raised", exc |-> "KeyError"]
  ELSE [outcome |-> "returned", exc |-> NoExc]


(* ------------------------------ actions -------------------------------- *)
Streaming == pc \in {"stream", "rstream"}

\* The batches the model may return with k tool call ids left.
ModelOutputs(k) ==
  UNION {[1..n -> CallKinds] : n \in 0..(IF k < MaxBatch THEN k ELSE MaxBatch)}

\* run() ends: its locals are dropped, the thread keeps its checkpoint.
EndRun(r) ==
  /\ pc' = "idle"
  /\ outcome' = r.outcome
  /\ exc' = r.exc

\* No script runner invocation is being looked at.
NoProc == [kind |-> "none", rc |-> 0, stdout |-> <<>>, stderr |-> <<>>, msg |-> <<>>]

ToolIdle ==
  /\ tool = "none"
  /\ timeout = 0
  /\ proc = NoProc
  /\ returned = FALSE
  /\ result = <<>>

\* The thread and run() after ReActAgent.__init__.
MainInit ==
  /\ reducer \in {"add_messages", "operator_add"}
  /\ messages = <<>>
  /\ node = "none"
  /\ interrupts = {}
  /\ pc = "idle"
  /\ command = ""
  /\ decision = "unset"
  /\ approved = FALSE
  /\ outcome = "none"
  /\ exc = NoExc
  /\ runs = 0
  /\ modelCalls = 0
  /\ nextId = 0
  /\ lastModelInput = <<>>
  /\ execLog = <<>>
  /\ approvalLog = <<>>
  /\ interruptLog = <<>>
  /\ resumeLog = <<>>

\* The worker slots on which the tools node runs data_analysis calls side by side.
Slots == {1, 2}

NoReturn == [tool |-> "none", child |-> "none", path |-> 0, exists |-> FALSE,
             tracked |-> FALSE, text |-> <<>>]
NoExit == [leftover |-> {}, tracked |-> 0]

\* DataAnalysisSubagent.__init__: no delegation yet, the tracker is empty.
SubIdle ==
  /\ tempFiles = <<>>
  /\ disk = {}
  /\ nextPath = 0
  /\ subThread = <<>>
  /\ delegations = 0
  /\ dpc = [s \in Slots |-> "idle"]
  /\ dcall = [s \in Slots |-> 0]
  /\ dinfo = [s \in Slots |-> "none"]
  /\ dhist = [s \in Slots |-> <<>>]
  /\ dinput = [s \in Slots |-> <<>>]
  /\ dmodel = [s \in Slots |-> 0]
  /\ dmade = [s \in Slots |-> {}]
  /\ dpath = [s \in Slots |-> 0]
  /\ dproc = [s \in Slots |-> NoProc]
  /\ dret = [s \in Slots |-> NoReturn]
  /\ dsusp = [s \in Slots |-> FALSE]
  /\ dresult = [s \in Slots |-> "none"]
  /\ dexit = [s \in Slots |-> NoExit]

\* No call on the skill manager yet.
NoCall == [op |-> "none", id |-> 0, file |-> <<>>, out |-> <<>>, ids |-> <<>>]

\* No skill catalog is looked at.
SkillIdle ==
  /\ skillsDir = "missing"
  /\ descriptors = <<>>
  /\ globOrder = <<>>
  /\ manager = "none"
  /\ skills = <<>>
  /\ called = NoCall
  /\ reads = <<>>

\* No CLI session is looked at.
CliIdle ==
  /\ isNew = FALSE
  /\ titleUpdated = TRUE
  /\ cpc = "done"
  /\ query = [n |-> 0, len |-> 0]
  /\ queries = <<>>
  /\ titleCalls = <<>>
  /\ storedTitle = [of |-> 0, chars |-> 0, dots |-> FALSE]

\* No pre-analysis is looked at.
FrameIdle ==
  /\ frame = <<>>
  /\ privacyMode = FALSE
  /\ analysed = FALSE
  /\ info = [columns |-> <<>>, sample |-> <<>>]

OtherIdle == SkillIdle /\ CliIdle /\ FrameIdle

\* Nothing but the main loop is looked at.
OffMainIdle == ToolIdle /\ SubIdle /\ OtherIdle

Init == MainInit /\ OffMainIdle

\* run(user_input), lines 127-139: the new input is appended to the thread
\* and the graph starts again at the model node.
RunStart ==
  /\ UNCHANGED offMain
  /\ pc = "idle"
  /\ runs < MaxRuns
  /\ runs' = runs + 1
  /\ messages' = Append(messages, HumanMsg)
  /\ interrupts' = AfterInput(interrupts)
  /\ node' = "model"
  /\ pc' = "stream"
  /\ command' = ""
  /\ decision' = "unset"
  /\ approved' = FALSE
  /\ outcome' = "none"
  /\ exc' = NoExc
  /\ UNCHANGED <<reducer, modelCalls, nextId, lastModelInput, execLog,
                 approvalLog, interruptLog, resumeLog>>

\* The model node: the model sees the whole history and answers with a final
\* text (no tool calls) or a batch of tool calls.
ModelStep ==
  /\ UNCHANGED offMain
  /\ Streaming
  /\ node = "model"
  /\ modelCalls < MaxModelCalls
  /\ \E kinds \in ModelOutputs(MaxCalls - nextId) :
       /\ messages' = Append(messages, AIMsg(modelCalls + 1, NumberedCalls(kinds, nextId)))
       /\ nextId' = nextId + Len(kinds)
  /\ modelCalls' = modelCalls + 1
  /\ lastModelInput' = messages
  /\ node' = "after_model"
  /\ UNCHANGED <<reducer, interrupts, pc, command, decision, approved, outcome, exc, runs,
                 execLog, approvalLog, interruptLog, resumeLog>>

\* HumanInTheLoopMiddleware.after_model, first entry: a batch without gated
\* calls passes; a batch with a gated call raises the interrupt, which ends
\* the open stream with an '__interrupt__' event.  Ending the first stream
\* that way leads run() to line 147; ending the resumed stream that way
\* leads it to line 185.
AfterModel ==
  /\ UNCHANGED offMain
  /\ Streaming
  /\ node = "after_model"
  /\ LET ai == LastAI(messages) IN
     IF InterruptToolCalls(ai) = <<>>
     THEN /\ node' = ModelToTools(messages)
          /\ UNCHANGED <<interrupts, interruptLog, pc, outcome, exc>>
     ELSE /\ interrupts' = interrupts \cup Range(HITLInterrupts(ai))
          /\ interruptLog' = interruptLog \o [i \in DOMAIN HITLInterrupts(ai) |-> ai.id]
          /\ node' = "after_model"
          /\ IF pc = "stream"
             THEN pc' = "extract" /\ UNCHANGED <<outcome, exc>>
             ELSE EndRun(RunResult("interrupt"))
  /\ UNCHANGED <<reducer, messages, command, decision, approved, runs, modelCalls, nextId,
                 lastModelInput, execLog, approvalLog, resumeLog>>

\* The interrupt run() looks at: interrupt_data[0] of the final event.
FirstInterrupt == CHOOSE i \in interrupts : i.batch = LastAI(messages).id

\* Lines 147-159.
Extract ==
  /\ UNCHANGED offMain
  /\ pc = "extract"
  /\ LET r == ExtractCommand(FirstInterrupt.value) IN
     IF r.exc # NoExc
     THEN EndRun([outcome |-> "raised", exc |-> r.exc]) /\ UNCHANGED command
     ELSE pc' = "ask" /\ command' = r.command /\ UNCHANGED <<outcome, exc>>
  /\ UNCHANGED <<reducer, messages, node, interrupts, decision, approved, runs, modelCalls,
                 nextId, lastModelInput, execLog, approvalLog, interruptLog,
                 resumeLog>>

\* Line 162: callback.request_approval(command).
RequestApproval ==
  /\ UNCHANGED offMain
  /\ pc = "ask"
  /\ \E d \in Decisions :
       /\ decision' = d
       /\ approved' = Approved(d)
       /\ approvalLog' = Append(approvalLog,
            [batch |-> FirstInterrupt.batch, command |-> command,
             approved |-> Approved(d)])
  /\ pc' = "resume"
  /\ UNCHANGED <<reducer, messages, node, interrupts, command, outcome, exc, runs,
                 modelCalls, nextId, lastModelInput, execLog, interruptLog,
                 resumeLog>>

\* Lines 164-182: stream(Command(resume={"decisions": [...]})).  The gate
\* node runs again from its start, interrupt() now returns the resume value:
\* the number of decisions must equal the number of gated calls (ValueError
\* otherwise, the interrupt stays pending); each decision is applied.
Resume ==
  /\ UNCHANGED offMain
  /\ pc = "resume"
  /\ LET ai == LastAI(messages)
         gated == InterruptToolCalls(ai)
         decisions == ResumeDecisions(approved)
     IN
     IF Len(decisions) # Len(gated)
     THEN /\ EndRun([outcome |-> "raised", exc |-> "ValueError"])
          /\ UNCHANGED <<messages, node, interrupts, resumeLog>>
     ELSE /\ messages' = ApplyGateUpdate(reducer, messages, RevisedAI(ai),
                                         ArtificialToolMessages(gated, decisions))
          /\ interrupts' = {i \in interrupts : i.batch # ai.id}
          /\ resumeLog' = Append(resumeLog, [batch |-> ai.id, type |-> decisions[1]])
          /\ node' = ModelToTools(messages')
          /\ pc' = "rstream"
          /\ UNCHANGED <<outcome, exc>>
  /\ UNCHANGED <<reducer, command, decision, approved, runs, modelCalls, nextId,
                 lastModelInput, execLog, approvalLog, interruptLog>>

\* A tool function is invoked for a pending call unless its arguments fail
\* the tool's schema (bash without 'command').
Invocable(c) == ~(c.name = "bash" /\ c.command = Absent)

\* The tools node, every tool returning: one tool message per pending call,
\* in the order of the calls.
ToolsStep ==
  /\ UNCHANGED offMain
  /\ Streaming
  /\ node = "tools"
  /\ LET P == PendingToolCalls(messages) IN
       /\ messages' = messages \o
            [i \in 1..Len(P) |->
               ToolMsg(P[i].id, IF Invocable(P[i]) THEN "result" ELSE "error")]
       /\ execLog' = execLog \o
            [i \in 1..Len(SelectSeq(P, Invocable)) |-> SelectSeq(P, Invocable)[i].id]
  /\ node' = "model"
  /\ UNCHANGED <<reducer, interrupts, pc, command, decision, approved, outcome, exc, runs,
                 modelCalls, nextId, lastModelInput, approvalLog, interruptLog,
                 resumeLog>>

\* The tools node when data_analysis raises (delegation without a guard
\* around the subagent loop): the step fails, none of its tool messages
\* reaches the thread, the exception leaves run().  The other calls of the
\* step run beside it, so any of them may have been invoked.
ToolsRaise ==
  /\ UNCHANGED offMain
  /\ Streaming
  /\ node = "tools"
  /\ LET P == PendingToolCalls(messages) IN
     \E f \in DOMAIN P :
       /\ P[f].name = "data_analysis"
       /\ \E others \in SUBSET {i \in DOMAIN P : i # f /\ Invocable(P[i])} :
            LET ran == SelectSeq(P, LAMBDA c :
                         \E i \in others \cup {f} : P[i].id = c.id)
            IN execLog' = execLog \o [i \in DOMAIN ran |-> ran[i].id]
  /\ EndRun([outcome |-> "raised", exc |-> "ToolError"])
  /\ UNCHANGED <<reducer, messages, node, interrupts, command, decision, approved, runs,
                 modelCalls, nextId, lastModelInput, approvalLog, interruptLog,
                 resumeLog>>

\* The graph reached its end: the stream's last event holds the messages and
\* line 185 returns the content of the last one.
Return ==
  /\ UNCHANGED offMain
  /\ Streaming
  /\ node = "end"
  /\ EndRun(RunResult("values"))
  /\ UNCHANGED <<reducer, messages, node, interrupts, command, decision, approved, runs,
                 modelCalls, nextId, lastModelInput, execLog, approvalLog,
                 interruptLog, resumeLog>>

Next ==
  \/ RunStart
  \/ ModelStep
  \/ AfterModel
  \/ Extract
  \/ RequestApproval
  \/ Resume
  \/ ToolsStep
  \/ ToolsRaise
  \/ Return

Spec == Init /\ [][Next]_vars


\* The environment in which no tool raises.
NextNoFault ==
  \/ RunStart
  \/ ModelStep
  \/ AfterModel
  \/ Extract
  \/ RequestApproval
  \/ Resume
  \/ ToolsStep
  \/ Return

SpecNoFault == Init /\ [][NextNoFault]_vars

(* ---------------- suspension payloads of every shape ------------------- *)
WellFormedRequest == ActionRequest([command |-> "c1"])

\* The shapes an interrupt value can take: not a mapping, no
\* 'action_requests', an empty list, a request that is not a mapping, has no
\* 'args', has 'args' that is None or a list, has no 'command', or is whole.
PayloadShapes ==
  { [value |-> "none", key |-> FALSE, reqs |-> <<>>],
    [value |-> "list", key |-> FALSE, reqs |-> <<>>],
    [value |-> "dict", key |-> FALSE, reqs |-> <<>>],
    [value |-> "dict", key |-> TRUE, reqs |-> <<>>] }
  \cup
  { [value |-> "dict", key |-> TRUE, reqs |-> <<r>>] :
      r \in { [WellFormedRequest EXCEPT !.shape = "none"],
              [WellFormedRequest EXCEPT !.hasargs = FALSE],
              [WellFormedRequest EXCEPT !.args = "none"],
              [WellFormedRequest EXCEPT !.args = "list"],
              [WellFormedRequest EXCEPT !.command = Absent],
              WellFormedRequest } }

\* run() at line 147 of its first call: the first stream ended in an
\* interrupt for a bash call, the interrupt's value being of any shape.
InitPayload ==
  /\ OffMainIdle
  /\ reducer \in {"add_messages", "operator_add"}
  /\ messages = <<HumanMsg, AIMsg(1, <<ToolCall(1, [name |-> "bash", command |-> "c1"])>>)>>
  /\ node = "after_model"
  /\ \E p \in PayloadShapes : interrupts = {[batch |-> 1, value |-> p]}
  /\ pc = "extract"
  /\ command = ""
  /\ decision = "unset"
  /\ approved = FALSE
  /\ outcome = "none"
  /\ exc = NoExc
  /\ runs = 1
  /\ modelCalls = 1
  /\ nextId = 1
  /\ lastModelInput = <<HumanMsg>>
  /\ execLog = <<>>
  /\ approvalLog = <<>>
  /\ interruptLog = <<1>>
  /\ resumeLog = <<>>

SpecPayload == InitPayload /\ [][Next]_vars


(* ----------------------------- texts ----------------------------------- *)
\* A string is a sequence of tokens; "" is <<>>, + is \o.
Digits == <<"0", "1", "2", "3", "4", "5", "6", "7", "8", "9">>

\* str(n) of an integer.
RECURSIVE Str(_)
Str(n) ==
  IF n < 0 THEN <<"-">> \o Str(0 - n)
  ELSE IF n < 10 THEN <<Digits[n + 1]>>
  ELSE Str(n \div 10) \o <<Digits[(n % 10) + 1]>>

\* part in text
Contains(text, part) ==
  \E i \in 0..(Len(text) - Len(part)) :
    \A j \in 1..Len(part) : text[i + j] = part[j]

(* -------------------------- script runners ----------------------------- *)
BashDefaultTimeout == 30      \* BashMiddleware(timeout: int = 30)
ScriptDefaultTimeout == 60    \* DataAnalysisSubagent(timeout: int = 60)
Timeouts == {BashDefaultTimeout, ScriptDefaultTimeout}

\* mkstemp(suffix=".py", prefix="analysis_"): the n-th name handed out.
ScriptPath(n) == <<"/tmp/analysis_">> \o Str(n) \o <<".py">>

BashNoOutput == <<"Command executed successfully (no output)">>
ScriptNoOutput == <<"Success (no output)">>

\* A mutant of BashTimeoutText: the limit is not repeated.
BashTimeoutNoLimit(t) == <<"Error: Command execution timed out">>

BashTimeoutText(t) ==
  <<"Error: Command execution timed out (">> \o Str(t) \o <<" second limit)">>
ScriptTimeoutText(path, t) ==
  <<"TIMEOUT in ">> \o path \o <<" - exceeded ">> \o Str(t) \o <<"s">>

\* What subprocess.run can do: the child exits with a status and two captured
\* streams, the timeout expires, or another exception is raised.
Exited(rc, out, err) ==
  [kind |-> "exit", rc |-> rc, stdout |-> out, stderr |-> err, msg |-> <<>>]
TimedOut == [kind |-> "timeout", rc |-> 0, stdout |-> <<>>, stderr |-> <<>>, msg |-> <<>>]
Raised(msg) ==
  [kind |-> "exception", rc |-> 0, stdout |-> <<>>, stderr |-> <<>>, msg |-> msg]

\* A mutant of bash: a zero exit returns the captured stdout as it is.
BashNoSentinel(o, t) ==
  IF o.kind = "timeout" THEN BashTimeoutText(t)
  ELSE IF o.kind = "exception" THEN <<"Error executing command: ">> \o o.msg
  ELSE IF o.rc # 0
  THEN <<"Command failed with exit code ">> \o Str(o.rc) \o <<"\nError: ">>
         \o (IF o.stderr # <<>> THEN o.stderr ELSE o.stdout)
  ELSE o.stdout

\* bash(command), bash.py lines 58-78, for each outcome of subprocess.run.
bash(o, t) ==
  IF o.kind = "timeout" THEN BashTimeoutText(t)
  ELSE IF o.kind = "exception" THEN <<"Error executing command: ">> \o o.msg
  ELSE IF o.rc # 0
  THEN <<"Command failed with exit code ">> \o Str(o.rc) \o <<"\nError: ">>
         \o (IF o.stderr # <<>> THEN o.stderr ELSE o.stdout)
  ELSE IF o.stdout # <<>> THEN o.stdout ELSE BashNoOutput

\* A mutant of run_script: a failed script reports its path only.
ScriptErrorWithoutStderr(path, o, t) ==
  IF o.kind = "timeout" THEN ScriptTimeoutText(path, t)
  ELSE IF o.kind = "exception" THEN <<"ERROR in ">> \o path \o <<"\n">> \o o.msg
  ELSE IF o.rc # 0 THEN <<"ERROR in ">> \o path \o <<"\n">>
  ELSE IF o.stdout # <<>> THEN o.stdout ELSE ScriptNoOutput

\* run_script(script), data_analysis.py lines 125-143, for each outcome of
\* subprocess.run on the script written to `path`.
run_script(path, o, t) ==
  IF o.kind = "timeout" THEN ScriptTimeoutText(path, t)
  ELSE IF o.kind = "exception" THEN <<"ERROR in ">> \o path \o <<"\n">> \o o.msg
  ELSE IF o.rc # 0 THEN <<"ERROR in ">> \o path \o <<"\n">> \o o.stderr
  ELSE IF o.stdout # <<>> THEN o.stdout ELSE ScriptNoOutput

\* What tool `tl` returns for outcome o under timeout t.
ToolResult(tl, o, t) ==
  IF tl = "bash" THEN bash(o, t) ELSE run_script(ScriptPath(1), o, t)

\* The inputs of one invocation.
ExitCodes == {0, 1, 2}
Texts ==
  {<<>>, <<"rows: 3">>, <<"Traceback">>}
    \cup {BashTimeoutText(t) : t \in Timeouts}
    \cup {ScriptTimeoutText(ScriptPath(1), t) : t \in Timeouts}
Procs ==
  {Exited(rc, out, err) : rc \in ExitCodes, out \in Texts, err \in Texts}
    \cup {TimedOut} \cup {Raised(msg) : msg \in {<<>>, <<"embedded null byte">>}}

InitTool ==
  /\ MainInit
  /\ SubIdle
  /\ OtherIdle
  /\ tool \in {"bash", "run_script"}
  /\ timeout \in Timeouts
  /\ proc \in Procs
  /\ returned = FALSE
  /\ result = <<>>

\* The tool function runs the child and returns.
Invoke ==
  /\ ~returned
  /\ tool # "none"
  /\ result' = ToolResult(tool, proc, timeout)
  /\ returned' = TRUE
  /\ UNCHANGED <<mainVars, subVars, otherVars, tool, timeout, proc>>

NextTool == Invoke

SpecTool == InitTool /\ [][NextTool]_vars


(* ----------------------------- delegation ------------------------------ *)
MaxDelegations == 2       \* data_analysis calls on the instance
MaxSubModelCalls == 2     \* model calls of one delegation
MaxScripts == 2           \* run_script calls on the instance

SupportedExts == {".csv", ".json", ".xls", ".xlsx"}
Exts == SupportedExts \cup {".txt"}

\* _analyze_dataframe, lines 156-191: an error JSON for an extension that is
\* not supported and for a file pandas cannot load, the structure info else.
analyze_dataframe(ext, readable) ==
  IF ext \notin SupportedExts THEN "unsupported"
  ELSE IF ~readable THEN "unreadable"
  ELSE "info"

\* A mutant of SubInterruptOn: the subagent is built with the approval gate.
SubGateBash == {"bash"}

\* create_agent(...) of the subagent, lines 209-218: no middleware, so no
\* tool of the subagent is gated.
SubInterruptOn == {}

\* What the subagent model may answer with: a final text or one tool call.
SubModelOutputs == {"final", "run_script", "bash"}

\* run_script calls dispatched so far.
Scripts == nextPath + Cardinality({s \in Slots : dpc[s] = "mkstemp"})

\* The answers left to the model of slot s by the bounds.
SubOutputsLeft(s) ==
  IF dmodel[s] + 1 >= MaxSubModelCalls THEN {"final"}
  ELSE IF Scripts >= MaxScripts THEN SubModelOutputs \ {"run_script"}
  ELSE SubModelOutputs

\* A message list of the subagent thread is kept as the sequence of its
\* turns: the messages one delegation appended in a row are one turn, named
\* by the number of that delegation.  Appending a message of delegation k:
AddMessage(msgs, k) ==
  IF msgs # <<>> /\ msgs[Len(msgs)] = k THEN msgs ELSE Append(msgs, k)

\* What running the script can do in a delegation.
SubProcs == {Exited(0, <<"rows: 3">>, <<>>), Exited(1, <<>>, <<"Traceback">>), TimedOut}

\* list.remove(x) on a list without duplicates.
Remove(list, x) == SelectSeq(list, LAMBDA y : y # x)

\* Slot s runs no delegation; the tools node hands a call to the first free slot.
Free(s) == dpc[s] \in {"idle", "returned", "raised"}

\* _run_subagent ends: its locals and those of the stream are dropped.
Forget(s) ==
  /\ dinfo' = [dinfo EXCEPT ![s] = "none"]
  /\ dhist' = [dhist EXCEPT ![s] = <<>>]
  /\ dinput' = [dinput EXCEPT ![s] = <<>>]
  /\ dmodel' = [dmodel EXCEPT ![s] = 0]
  /\ dmade' = [dmade EXCEPT ![s] = {}]
  /\ dpath' = [dpath EXCEPT ![s] = 0]
  /\ dproc' = [dproc EXCEPT ![s] = NoProc]
  /\ dret' = [dret EXCEPT ![s] = NoReturn]

\* run_script returns: its locals are dropped.
RsEnd(s) ==
  /\ dpath' = [dpath EXCEPT ![s] = 0]
  /\ dproc' = [dproc EXCEPT ![s] = NoProc]

\* How the child of a script runner ended.
Child(o) ==
  IF o.kind = "timeout" THEN "timeout" ELSE IF o.rc = 0 THEN "zero" ELSE "nonzero"

\* A tool return as seen at the moment the tool function returns.
Returned(name, child, path, files, tracker, text) ==
  [tool |-> name, child |-> child, path |-> path, exists |-> path \in files,
   tracked |-> path \in Range(tracker), text |-> text]

\* _run_subagent, lines 196-228 up to the first step of the stream: the
\* pre-analysis result goes into the task prompt whatever it is, a subagent
\* is built and streamed on the thread "data_analysis_{id(self)}" of the
\* instance: the stream loads the thread's latest checkpoint and appends the
\* new input.
DStart(s) ==
  /\ Free(s)
  /\ \A t \in Slots : t < s => ~Free(t)
  /\ delegations < MaxDelegations
  /\ delegations' = delegations + 1
  /\ dcall' = [dcall EXCEPT ![s] = delegations + 1]
  /\ \E ext \in Exts, readable \in BOOLEAN :
       dinfo' = [dinfo EXCEPT ![s] = analyze_dataframe(ext, readable)]
  /\ dhist' = [dhist EXCEPT ![s] = AddMessage(subThread, delegations + 1)]
  /\ subThread' = dhist'[s]
  /\ dinput' = [dinput EXCEPT ![s] = <<>>]
  /\ dmodel' = [dmodel EXCEPT ![s] = 0]
  /\ dmade' = [dmade EXCEPT ![s] = {}]
  /\ dpath' = [dpath EXCEPT ![s] = 0]
  /\ dproc' = [dproc EXCEPT ![s] = NoProc]
  /\ dret' = [dret EXCEPT ![s] = NoReturn]
  /\ dsusp' = [dsusp EXCEPT ![s] = FALSE]
  /\ dresult' = [dresult EXCEPT ![s] = "none"]
  /\ dexit' = [dexit EXCEPT ![s] = NoExit]
  /\ dpc' = [dpc EXCEPT ![s] = "model"]
  /\ UNCHANGED <<mainVars, toolVars, otherVars, tempFiles, disk, nextPath>>

\* The model node of the subagent and the edge after it: the model sees the
\* messages of the stream; a final text ends the stream, a gated call would
\* end it with an interrupt, any other call goes to the tools node.
SubModelStep(s) ==
  /\ dpc[s] = "model"
  /\ dmodel[s] < MaxSubModelCalls
  /\ dmodel' = [dmodel EXCEPT ![s] = dmodel[s] + 1]
  /\ dinput' = [dinput EXCEPT ![s] = dhist[s]]
  /\ \E out \in SubOutputsLeft(s) :
       /\ dhist' = [dhist EXCEPT ![s] = AddMessage(dhist[s], dcall[s])]
       /\ dsusp' = [dsusp EXCEPT ![s] = out \in SubInterruptOn]
       /\ dpc' = [dpc EXCEPT ![s] =
                    IF out = "final" \/ out \in SubInterruptOn THEN "cleanup"
                    ELSE IF out = "bash" THEN "bash" ELSE "mkstemp"]
  /\ subThread' = dhist'[s]
  /\ dret' = [dret EXCEPT ![s] = NoReturn]
  /\ UNCHANGED <<mainVars, toolVars, otherVars, tempFiles, disk, nextPath, delegations, dcall,
                 dinfo, dmade, dpath, dproc, dresult, dexit>>

\* The tools node runs the bash tool of the shared BashMiddleware; the
\* command fails or runs into the timeout, bash returns a text all the same.
SubBash(s) ==
  /\ dpc[s] = "bash"
  /\ \E o \in {Exited(1, <<>>, <<"No such file">>), TimedOut} :
       dret' = [dret EXCEPT ![s] =
                  Returned("bash", Child(o), 0, disk, tempFiles, bash(o, BashDefaultTimeout))]
  /\ dhist' = [dhist EXCEPT ![s] = AddMessage(dhist[s], dcall[s])]
  /\ subThread' = dhist'[s]
  /\ dpc' = [dpc EXCEPT ![s] = "model"]
  /\ UNCHANGED <<mainVars, toolVars, otherVars, tempFiles, disk, nextPath, delegations, dcall,
                 dinfo, dinput, dmodel, dmade, dpath, dproc, dsusp,
                 dresult, dexit>>

\* run_script, line 119: mkstemp creates a file of a name not in use.
RsMkstemp(s) ==
  /\ dpc[s] = "mkstemp"
  /\ nextPath' = nextPath + 1
  /\ disk' = disk \cup {nextPath + 1}
  /\ dpath' = [dpath EXCEPT ![s] = nextPath + 1]
  /\ dmade' = [dmade EXCEPT ![s] = dmade[s] \cup {nextPath + 1}]
  /\ dpc' = [dpc EXCEPT ![s] = "track"]
  /\ UNCHANGED <<mainVars, toolVars, otherVars, tempFiles, subThread, delegations, dcall, dinfo,
                 dhist, dinput, dmodel, dproc, dret, dsusp, dresult,
                 dexit>>

\* run_script, line 119, when mkstemp raises OSError: the line is outside the
\* try block, the tools node re-raises, the stream and with it _run_subagent
\* end with the exception; line 230 is not reached.
RsMkstempFails(s) ==
  /\ dpc[s] = "mkstemp"
  /\ dpc' = [dpc EXCEPT ![s] = "raised"]
  /\ dresult' = [dresult EXCEPT ![s] = "raised"]
  /\ Forget(s)
  /\ dexit' = [dexit EXCEPT ![s] =
                 [leftover |-> dmade[s] \cap disk, tracked |-> Len(tempFiles)]]
  /\ UNCHANGED <<mainVars, toolVars, otherVars, tempFiles, disk, nextPath, subThread, delegations,
                 dcall, dsusp>>

\* run_script, line 120: temp_files.append(script_path).
RsTrack(s) ==
  /\ dpc[s] = "track"
  /\ tempFiles' = Append(tempFiles, dpath[s])
  /\ dpc' = [dpc EXCEPT ![s] = "run"]
  /\ UNCHANGED <<mainVars, toolVars, otherVars, disk, nextPath, subThread, delegations, dcall,
                 dinfo, dhist, dinput, dmodel, dmade, dpath, dproc,
                 dret, dsusp, dresult, dexit>>

\* run_script, lines 122-123, when the write raises OSError: outside the try
\* block as well; the file exists and is tracked, nothing cleans it up.
RsWriteFails(s) ==
  /\ dpc[s] = "run"
  /\ dpc' = [dpc EXCEPT ![s] = "raised"]
  /\ dresult' = [dresult EXCEPT ![s] = "raised"]
  /\ Forget(s)
  /\ dexit' = [dexit EXCEPT ![s] =
                 [leftover |-> dmade[s] \cap disk, tracked |-> Len(tempFiles)]]
  /\ UNCHANGED <<mainVars, toolVars, otherVars, tempFiles, disk, nextPath, subThread, delegations,
                 dcall, dsusp>>

\* run_script, lines 122-141: the script is written, the child runs.  A
\* non-zero exit and a timeout return at once; a zero exit goes on to line 136.
RsRun(s) ==
  /\ dpc[s] = "run"
  /\ \E o \in SubProcs :
       /\ IF o.kind = "exit" /\ o.rc = 0
          THEN /\ dproc' = [dproc EXCEPT ![s] = o]
               /\ dpc' = [dpc EXCEPT ![s] = "unlink"]
               /\ UNCHANGED <<dret, dhist, subThread, dpath>>
          ELSE /\ RsEnd(s)
               /\ dret' = [dret EXCEPT ![s] =
                             Returned("run_script", Child(o), dpath[s], disk, tempFiles,
                                      run_script(ScriptPath(dpath[s]), o, ScriptDefaultTimeout))]
               /\ dhist' = [dhist EXCEPT ![s] = AddMessage(dhist[s], dcall[s])]
               /\ subThread' = dhist'[s]
               /\ dpc' = [dpc EXCEPT ![s] = "model"]
  /\ UNCHANGED <<mainVars, toolVars, otherVars, tempFiles, disk, nextPath, delegations, dcall,
                 dinfo, dinput, dmodel, dmade, dsusp, dresult, dexit>>

\* run_script, line 136: os.unlink(script_path).  When the file is gone the
\* FileNotFoundError is caught at line 142 and an error text is returned.
RsUnlink(s) ==
  /\ dpc[s] = "unlink"
  /\ IF dpath[s] \in disk
     THEN /\ disk' = disk \ {dpath[s]}
          /\ dpc' = [dpc EXCEPT ![s] = "untrack"]
          /\ UNCHANGED <<dret, dhist, subThread, dpath, dproc>>
     ELSE /\ RsEnd(s)
          /\ dret' = [dret EXCEPT ![s] =
                        Returned("run_script", "zero", dpath[s], disk, tempFiles,
                                 run_script(ScriptPath(dpath[s]), Raised(<<"No such file">>),
                                            ScriptDefaultTimeout))]
          /\ dhist' = [dhist EXCEPT ![s] = AddMessage(dhist[s], dcall[s])]
          /\ subThread' = dhist'[s]
          /\ dpc' = [dpc EXCEPT ![s] = "model"]
          /\ UNCHANGED disk
  /\ UNCHANGED <<mainVars, toolVars, otherVars, tempFiles, nextPath, delegations, dcall, dinfo,
                 dinput, dmodel, dmade, dsusp, dresult, dexit>>

\* run_script, lines 137-138: temp_files.remove(script_path) and the return
\* of the output.  When the path is not in the list the ValueError is caught
\* at line 142 and an error text is returned.
RsUntrack(s) ==
  /\ dpc[s] = "untrack"
  /\ tempFiles' = Remove(tempFiles, dpath[s])
  /\ RsEnd(s)
  /\ dret' = [dret EXCEPT ![s] =
                IF dpath[s] \in Range(tempFiles)
                THEN Returned("run_script", "zero", dpath[s], disk, tempFiles',
                              run_script(ScriptPath(dpath[s]), dproc[s], ScriptDefaultTimeout))
                ELSE Returned("run_script", "zero", dpath[s], disk, tempFiles',
                              run_script(ScriptPath(dpath[s]), Raised(<<"not in list">>),
                                         ScriptDefaultTimeout))]
  /\ dhist' = [dhist EXCEPT ![s] = AddMessage(dhist[s], dcall[s])]
  /\ subThread' = dhist'[s]
  /\ dpc' = [dpc EXCEPT ![s] = "model"]
  /\ UNCHANGED <<mainVars, toolVars, otherVars, disk, nextPath, delegations, dcall, dinfo, dinput,
                 dmodel, dmade, dsusp, dresult, dexit>>

\* _cleanup_temp_files, lines 149-151, after the stream ended: every listed
\* path that exists is unlinked.
CleanupUnlink(s) ==
  /\ dpc[s] = "cleanup"
  /\ disk' = disk \ Range(tempFiles)
  /\ dpc' = [dpc EXCEPT ![s] = "clear"]
  /\ UNCHANGED <<mainVars, toolVars, otherVars, tempFiles, nextPath, subThread, delegations,
                 dcall, dinfo, dhist, dinput, dmodel, dmade, dpath,
                 dproc, dret, dsusp, dresult, dexit>>

\* _cleanup_temp_files, line 152, and the return of _run_subagent.
CleanupClear(s) ==
  /\ dpc[s] = "clear"
  /\ tempFiles' = <<>>
  /\ dpc' = [dpc EXCEPT ![s] = "returned"]
  /\ dresult' = [dresult EXCEPT ![s] = "returned"]
  /\ Forget(s)
  /\ dexit' = [dexit EXCEPT ![s] = [leftover |-> dmade[s] \cap disk, tracked |-> 0]]
  /\ UNCHANGED <<mainVars, toolVars, otherVars, disk, nextPath, subThread, delegations, dcall,
                 dsusp>>

NextSub ==
  \E s \in Slots :
    \/ DStart(s)
    \/ SubModelStep(s)
    \/ SubBash(s)
    \/ RsMkstemp(s)
    \/ RsMkstempFails(s)
    \/ RsTrack(s)
    \/ RsWriteFails(s)
    \/ RsRun(s)
    \/ RsUnlink(s)
    \/ RsUntrack(s)
    \/ CleanupUnlink(s)
    \/ CleanupClear(s)

InitSub == MainInit /\ reducer = "operator_add" /\ ToolIdle /\ SubIdle /\ OtherIdle

SpecSub == InitSub /\ [][NextSub]_vars


(* ---------------------------- skill catalog ---------------------------- *)
MaxSkills == 2            \* skill folders under the skills root

\* Skill folders are numbered in the ascending order of their names.
SkillNumbers == 1..MaxSkills
SkillId(n) == <<"skill_">> \o Str(n)

\* What the SKILL.md of a folder can be like.
DescriptorKinds == {"full", "noname", "nodesc", "nofrontmatter", "unreadable"}

\* A path is the sequence of its components, the root first.
SkillsRoot == <<<<"/">>, <<"skills">>>>
SkillFolder(n) == Append(SkillsRoot, SkillId(n))
Descriptor(n) == Append(SkillFolder(n), <<"SKILL.md">>)
Reference(n) == SkillFolder(n) \o <<<<"reference">>, <<"example.md">>>>
Passwd == <<<<"/">>, <<"etc">>, <<"passwd">>>>

\* The skill folders that hold a SKILL.md.
Present(d) == {n \in DOMAIN d : d[n] # "absent"}

\* The files that exist.
Files(d) ==
  {Passwd} \cup {Descriptor(n) : n \in Present(d)} \cup {Reference(n) : n \in Present(d)}

\* The text of a path, as an f-string prints it.
RECURSIVE PathText(_)
PathText(p) ==
  IF p = <<>> THEN <<>>
  ELSE IF Len(p) = 1 \/ p[1] = <<"/">> THEN p[1] \o PathText(Tail(p))
  ELSE p[1] \o <<"/">> \o PathText(Tail(p))

NameOf(n) == <<"Skill ">> \o Str(n)
DescriptionOf(n) == <<"what skill ">> \o Str(n) \o <<" is for">>
BodyOf(n) == <<"# Instructions of ">> \o SkillId(n) \o <<"\n">>
Frontmatter(n, kind) ==
  (IF kind = "noname" THEN <<>> ELSE <<"name: ">> \o NameOf(n) \o <<"\n">>)
  \o (IF kind = "nodesc" THEN <<>> ELSE <<"description: ">> \o DescriptionOf(n) \o <<"\n">>)

\* What is in a file that can be read.
Content(path) ==
  IF path = Passwd THEN <<"root:x:0:0">>
  ELSE LET n == CHOOSE k \in SkillNumbers : path \in {Descriptor(k), Reference(k)} IN
       IF path = Reference(n) THEN <<"example of ">> \o SkillId(n)
       ELSE IF descriptors[n] = "nofrontmatter" THEN BodyOf(n)
       ELSE <<"---", "\n">> \o Frontmatter(n, descriptors[n]) \o <<"---", "\n">> \o BodyOf(n)

\* open(path).read(): the text, or the OSError.
ReadFile(path) ==
  IF \E n \in Present(descriptors) :
       path = Descriptor(n) /\ descriptors[n] = "unreadable"
  THEN [raised |-> TRUE, text |-> <<"Permission denied">>]
  ELSE [raised |-> FALSE, text |-> Content(path)]

\* The first index from `from` on at which token t stands in text, 0 if none.
IndexFrom(text, t, from) ==
  IF \E i \in from..Len(text) : text[i] = t
  THEN CHOOSE i \in from..Len(text) :
         text[i] = t /\ \A j \in from..(i - 1) : text[j] # t
  ELSE 0

\* re.match(r"^---\s*\n(.*?\n)---\s*\n", content): the index of the last
\* token of the match, 0 when there is no header block.
FrontmatterEnd(content) ==
  IF Len(content) >= 2 /\ content[1] = "---" /\ content[2] = "\n"
  THEN LET close == IndexFrom(content, "---", 4) IN
       IF close # 0 /\ close < Len(content) /\ content[close - 1] = "\n"
            /\ content[close + 1] = "\n"
       THEN close + 1 ELSE 0
  ELSE 0

\* re.search(r"^key:\s*(.+)$", frontmatter, re.MULTILINE): the rest of the
\* first line that starts with the key, <<>> when there is none.
FieldOf(frontmatter, key) ==
  LET at == IndexFrom(frontmatter, key, 1) IN
  IF at = 0 THEN <<>>
  ELSE SubSeq(frontmatter, at + 1, IndexFrom(frontmatter, "\n", at) - 1)

\* _extract_summary(skill_file), lines 71-91.
extract_summary(path) ==
  LET file == ReadFile(path)
      end == FrontmatterEnd(file.text)
      frontmatter == SubSeq(file.text, 3, end - 2)
      name == FieldOf(frontmatter, "name: ")
      description == FieldOf(frontmatter, "description: ")
  IN IF file.raised
     THEN [raised |-> TRUE, error |-> file.text, name |-> <<>>, description |-> <<>>]
     ELSE IF end = 0
     THEN [raised |-> TRUE, error |-> <<"No frontmatter found in SKILL.md">>,
           name |-> <<>>, description |-> <<>>]
     ELSE [raised |-> FALSE, error |-> <<>>,
           name |-> IF name = <<>> THEN <<"Unknown">> ELSE name,
           description |-> IF description = <<>> THEN <<"No description">>
                           ELSE description]

\* sorted(...) of a set of skill ids.
RECURSIVE Sorted(_)
Sorted(S) ==
  IF S = {} THEN <<>>
  ELSE LET least == CHOOSE x \in S : \A y \in S : x <= y IN
       <<least>> \o Sorted(S \ {least})

\* sep.join(parts) of a list of texts.
RECURSIVE Join(_, _)
Join(parts, sep) ==
  IF parts = <<>> THEN <<>>
  ELSE IF Len(parts) = 1 THEN parts[1]
  ELSE parts[1] \o sep \o Join(Tail(parts), sep)

\* The backquote character, which line 54 puts around the id.
Backquote == "(backquote)"

\* The lines one skill adds to the summaries, lines 51-58.
SummaryLines(n) ==
  LET summary == extract_summary(Descriptor(n))
      heading == <<"## ">> \o (IF summary.raised THEN SkillId(n) ELSE summary.name)
      error == <<"**Error loading summary**: ">> \o summary.error \o <<"\n">>
      id == <<"**ID**: ", Backquote>> \o SkillId(n) \o <<Backquote>>
      description == <<"**Description**: ">> \o summary.description \o <<"\n">>
  IN IF summary.raised THEN <<heading, error>> ELSE <<heading, id, description>>

RECURSIVE SummariesOf(_)
SummariesOf(order) ==
  IF order = <<>> THEN <<>> ELSE SummaryLines(order[1]) \o SummariesOf(Tail(order))

\* A mutant of get_skill_summaries: the skills are taken in the order of the dict.
SummariesInDictOrder(sk) ==
  IF sk = <<>> THEN <<"No skills available.">>
  ELSE Join(SummariesOf(sk), <<"\n">>)

\* get_skill_summaries(), lines 45-60.
get_skill_summaries(sk) ==
  IF sk = <<>> THEN <<"No skills available.">>
  ELSE Join(SummariesOf(Sorted(Range(sk))), <<"\n">>)

\* list_skills(), line 133.
list_skills(sk) == Sorted(Range(sk))

\* A mutant of NotFoundText: the known ids are listed in the order of the dict.
NotFoundUnsorted(n, sk) ==
  <<"Error: Skill '">> \o SkillId(n) \o <<"' not found. Available skills: ">>
  \o Join([i \in DOMAIN sk |-> SkillId(sk[i])], <<", ">>)

\* load_skill, lines 103-105: the text for an id that is not in the catalog.
NotFoundText(n, sk) ==
  <<"Error: Skill '">> \o SkillId(n) \o <<"' not found. Available skills: ">>
  \o Join([i \in DOMAIN Sorted(Range(sk)) |-> SkillId(Sorted(Range(sk))[i])], <<", ">>)

\* skill_folder / file, line 109: an absolute `file` replaces the folder.
PathJoin(folder, file) ==
  IF file # <<>> /\ file[1] = <<"/">> THEN file ELSE folder \o file

\* The file a path leads to: ".." steps to the parent directory.
RECURSIVE Resolve(_, _)
Resolve(done, rest) ==
  IF rest = <<>> THEN done
  ELSE IF rest[1] = <<"..">>
  THEN Resolve(IF Len(done) > 1 THEN SubSeq(done, 1, Len(done) - 1) ELSE done, Tail(rest))
  ELSE Resolve(Append(done, rest[1]), Tail(rest))

\* The `file` arguments view_skill is called with.
FileArgs ==
  { <<<<"SKILL.md">>>>,
    <<<<"reference">>, <<"example.md">>>>,
    <<<<"missing.md">>>>,
    <<<<"..">>, SkillId(1), <<"SKILL.md">>>>,
    <<<<"..">>, <<"..">>, <<"etc">>, <<"passwd">>>>,
    Passwd }

\* load_skill(skill_id, file), lines 103-125: the text returned and the
\* files read.
load_skill(n, file, sk) ==
  IF n \notin Range(sk) THEN [out |-> NotFoundText(n, sk), read |-> <<>>]
  ELSE LET target == Resolve(<<>>, PathJoin(SkillFolder(n), file)) IN
       IF target \notin Files(descriptors)
       THEN [out |-> <<"Error: File '">> \o PathText(file) \o <<"' not found in skill '">>
                       \o SkillId(n) \o <<"'">>,
             read |-> <<>>]
       ELSE IF ReadFile(target).raised
       THEN [out |-> <<"Error loading '">> \o PathText(file) \o <<"' from skill '">>
                       \o SkillId(n) \o <<"': ">> \o ReadFile(target).text,
             read |-> <<>>]
       ELSE [out |-> IF file = <<<<"SKILL.md">>>>
                     THEN SubSeq(ReadFile(target).text,
                                 FrontmatterEnd(ReadFile(target).text) + 1,
                                 Len(ReadFile(target).text))
                     ELSE ReadFile(target).text,
             read |-> <<target>>]

\* The orders in which a set can be listed.
Orders(S) ==
  {q \in [1..Cardinality(S) -> S] : \A i, j \in DOMAIN q : i # j => q[i] # q[j]}

\* SkillManager.__init__ and _discover_skills, lines 25-37.  Path(None)
\* raises TypeError; a root that does not exist leaves the catalog empty;
\* else every folder with a SKILL.md becomes a key, in the order of the glob.
Construct ==
  /\ manager = "none"
  /\ IF skillsDir = "unset"
     THEN manager' = "raised" /\ UNCHANGED skills
     ELSE /\ manager' = "built"
          /\ skills' = IF skillsDir = "missing" THEN <<>> ELSE globOrder
  /\ UNCHANGED <<mainVars, toolVars, subVars, cliVars, frameVars, skillsDir, descriptors, globOrder,
                 called, reads>>

\* skill_summaries: get_skill_summaries().
GetSkillSummaries ==
  /\ manager = "built"
  /\ called' = [op |-> "summaries", id |-> 0, file |-> <<>>,
                out |-> get_skill_summaries(skills), ids |-> <<>>]
  /\ reads' = [i \in DOMAIN list_skills(skills) |-> Descriptor(list_skills(skills)[i])]
  /\ UNCHANGED <<mainVars, toolVars, subVars, cliVars, frameVars, skillsDir, descriptors, globOrder,
                 manager, skills>>

\* list_skills().
ListSkills ==
  /\ manager = "built"
  /\ called' = [op |-> "list", id |-> 0, file |-> <<>>, out |-> <<>>,
                ids |-> list_skills(skills)]
  /\ reads' = <<>>
  /\ UNCHANGED <<mainVars, toolVars, subVars, cliVars, frameVars, skillsDir, descriptors, globOrder,
                 manager, skills>>

\* The view_skill tool, line 179: load_skill(skill_id, file) for an id of
\* the catalog or not, and a `file` the model chose.
ViewSkill ==
  /\ manager = "built"
  /\ \E n \in 1..(MaxSkills + 1), file \in FileArgs :
       /\ called' = [op |-> "load", id |-> n, file |-> file,
                     out |-> load_skill(n, file, skills).out, ids |-> <<>>]
       /\ reads' = load_skill(n, file, skills).read
  /\ UNCHANGED <<mainVars, toolVars, subVars, cliVars, frameVars, skillsDir, descriptors, globOrder,
                 manager, skills>>

NextSkill == Construct \/ GetSkillSummaries \/ ListSkills \/ ViewSkill

\* The skills_dir is unset, or names a directory that is missing, or one
\* with some skill folders in it, each with a descriptor of some kind.
InitSkill ==
  /\ MainInit
  /\ ToolIdle
  /\ SubIdle
  /\ CliIdle
  /\ FrameIdle
  /\ skillsDir \in {"unset", "missing", "present"}
  /\ descriptors \in [SkillNumbers -> DescriptorKinds \cup {"absent"}]
  /\ skillsDir # "present" => Present(descriptors) = {}
  /\ globOrder \in Orders(Present(descriptors))
  /\ manager = "none"
  /\ skills = <<>>
  /\ called = NoCall
  /\ reads = <<>>

SpecSkill == InitSkill /\ [][NextSkill]_vars


(* ------------------------------ CLI loop ------------------------------- *)
MaxQueries == 2           \* messages sent in one CLI session

\* query[:60], line 103.
TitleLimit == 60

\* A query is known by its place in the session and its length.
QueryLengths == {1, TitleLimit, TitleLimit + 1}
NoQuery == [n |-> 0, len |-> 0]

\* query[:60] + ("..." if len(query) > 60 else ""), line 103: the query
\* the title is cut from, how many of its characters, and the dots.
TitleOf(q) ==
  [of |-> q.n, chars |-> IF q.len > TitleLimit THEN TitleLimit ELSE q.len,
   dots |-> q.len > TitleLimit]

\* store.create(thread_id, title="New conversation"), line 71, and the title
\* a listed conversation already has.
NewConversation == [of |-> 0, chars |-> 0, dots |-> FALSE]

\* The prompt, lines 88-95: an exit word ends the loop, an empty line prompts
\* again, any other text is the query of this turn.
Prompt ==
  /\ cpc = "prompt"
  /\ \E line \in {"exit", "", "text"} :
       IF line = "exit"
       THEN cpc' = "done" /\ UNCHANGED <<query, queries>>
       ELSE IF line = ""
       THEN UNCHANGED <<cpc, query, queries>>
       ELSE /\ Len(queries) < MaxQueries
            /\ \E len \in QueryLengths :
                 query' = [n |-> Len(queries) + 1, len |-> len]
            /\ queries' = Append(queries, query')
            /\ cpc' = "run"
  /\ UNCHANGED <<mainVars, toolVars, subVars, skillVars, frameVars, isNew, titleUpdated,
                 titleCalls, storedTitle>>

\* agent.run(query), lines 98-99: it returns, or it raises and the except
\* branch of line 109 logs the error and the loop prompts again.
AgentRun ==
  /\ cpc = "run"
  /\ \E ended \in {"returned", "raised"} :
       cpc' = IF ended = "returned" THEN "title" ELSE "prompt"
  /\ UNCHANGED <<mainVars, toolVars, subVars, skillVars, frameVars, isNew, titleUpdated,
                 query, queries, titleCalls, storedTitle>>

\* Lines 102-105: while the title was not updated in this session,
\* update_title is called with the title cut from this query; when the store
\* raises, line 105 is not reached and the except branch prompts again.
SetTitle ==
  /\ cpc = "title"
  /\ IF titleUpdated
     THEN cpc' = "touch" /\ UNCHANGED <<titleUpdated, titleCalls, storedTitle>>
     ELSE /\ titleCalls' = Append(titleCalls, TitleOf(query))
          /\ \E stored \in BOOLEAN :
               IF stored
               THEN /\ storedTitle' = TitleOf(query)
                    /\ titleUpdated' = TRUE
                    /\ cpc' = "touch"
               ELSE /\ cpc' = "prompt"
                    /\ UNCHANGED <<storedTitle, titleUpdated>>
  /\ UNCHANGED <<mainVars, toolVars, subVars, skillVars, frameVars, isNew, query, queries>>

\* store.touch(thread_id), line 107; the loop prompts again whether it
\* returns or raises.
Touch ==
  /\ cpc = "touch"
  /\ cpc' = "prompt"
  /\ UNCHANGED <<mainVars, toolVars, subVars, skillVars, frameVars, isNew, titleUpdated,
                 query, queries, titleCalls, storedTitle>>

NextCli == Prompt \/ AgentRun \/ SetTitle \/ Touch

\* run_cli up to line 85: a new conversation was created with the title
\* "New conversation", or a listed one was picked; some earlier title is
\* stored for it.
InitCli ==
  /\ MainInit
  /\ ToolIdle
  /\ SubIdle
  /\ SkillIdle
  /\ FrameIdle
  /\ isNew \in BOOLEAN
  /\ titleUpdated = ~isNew
  /\ cpc = "prompt"
  /\ query = NoQuery
  /\ queries = <<>>
  /\ titleCalls = <<>>
  /\ storedTitle = NewConversation

SpecCli == InitCli /\ [][NextCli]_vars

(* ----------------------------- pre-analysis ---------------------------- *)
MaxColumns == 2           \* columns of the loaded frame
MaxRows == 2              \* rows of the loaded frame

\* df.head(3), line 187.
SampleRows == 3

\* The cells a loaded file can hold: texts that parse as dates, texts that
\* do not, missing values, and numbers.
DateTexts == {"2024-01-05"}
OtherTexts == {"alice"}
Missing == "nan"
TextCells == DateTexts \cup OtherTexts \cup {Missing}
NumberCells == {"7"}

\* The columns pandas can load: a column of numbers, or a column of texts.
Columns == [1..MaxRows -> NumberCells] \cup [1..MaxRows -> TextCells]

\* df[col].dtype after the load.
LoadedDtype(col) ==
  IF \A i \in DOMAIN col : col[i] \in NumberCells THEN "int64" ELSE "object"

\* pd.to_datetime(df[col], errors="coerce"), line 171: a text that parses
\* becomes a timestamp, any other value becomes NaT; nothing is raised.
to_datetime(col) ==
  [raised |-> FALSE,
   cells |-> [i \in DOMAIN col |-> IF col[i] \in DateTexts THEN "Timestamp" ELSE "NaT"]]

\* Lines 168-173 for one column: an object column is replaced by what
\* to_datetime returns unless that raises.
Coerced(col) ==
  IF LoadedDtype(col) = "object" /\ ~to_datetime(col).raised
  THEN [dtype |-> "datetime64[ns]", cells |-> to_datetime(col).cells]
  ELSE [dtype |-> LoadedDtype(col), cells |-> col]

\* Lines 176-187: the column-type map and, outside privacy mode, the
\* first rows as the sample.
frame_info(df, privacy) ==
  [columns |-> [c \in DOMAIN df |-> Coerced(df[c]).dtype],
   sample |-> IF privacy THEN <<>>
              ELSE [c \in DOMAIN df |->
                      SubSeq(Coerced(df[c]).cells, 1,
                             IF MaxRows < SampleRows THEN MaxRows ELSE SampleRows)]]

NoInfo == [columns |-> <<>>, sample |-> <<>>]

\* _analyze_dataframe(file_path) on a file that loads, lines 158-189.
AnalyzeDataframe ==
  /\ ~analysed
  /\ frame # <<>>
  /\ info' = frame_info(frame, privacyMode)
  /\ analysed' = TRUE
  /\ UNCHANGED <<mainVars, toolVars, subVars, skillVars, cliVars, frame, privacyMode>>

NextFrame == AnalyzeDataframe

InitFrame ==
  /\ MainInit
  /\ ToolIdle
  /\ SubIdle
  /\ SkillIdle
  /\ CliIdle
  /\ frame \in UNION {[1..n -> Columns] : n \in 1..MaxColumns}
  /\ privacyMode \in BOOLEAN
  /\ analysed = FALSE
  /\ info = NoInfo

SpecFrame == InitFrame /\ [][NextFrame]_vars


(* --------------------- vocabulary of the properties -------------------- *)
AIMessages(msgs) == {msgs[i] : i \in {j \in DOMAIN msgs : IsAI(msgs[j])}}

\* Every tool call requested in a message list.
ToolCallsIn(msgs) == UNION {Range(m.calls) : m \in AIMessages(msgs)}

\* The call of id c, and the id of the model message (batch) that requested it.
CallById(c) == CHOOSE k \in ToolCallsIn(messages) : k.id = c
BatchOf(c) ==
  (CHOOSE m \in AIMessages(messages) : \E k \in Range(m.calls) : k.id = c).id

\* How many tool messages of a message list answer call id c.
ResultCount(msgs, c) ==
  Cardinality({i \in DOMAIN msgs : msgs[i].type = "tool" /\ msgs[i].call = c})

\* How often x occurs in a log.
Occurrences(log, x) == Cardinality({i \in DOMAIN log : log[i] = x})

HasGated(m) == InterruptToolCalls(m) # <<>>

\* request_approval returned True for batch b / was invoked for batch b.
ApprovedBatch(b) ==
  \E k \in DOMAIN approvalLog : approvalLog[k].batch = b /\ approvalLog[k].approved
AskedBatch(b) == \E k \in DOMAIN approvalLog : approvalLog[k].batch = b

\* The gate has applied a decision to batch b.
DecidedBatch(b) == \E k \in DOMAIN resumeLog : resumeLog[k].batch = b

\* The k-th request_approval has been followed by its resume.
ResumeSent(k) == k < Len(approvalLog) \/ pc # "resume"

(* ------------------------------- C1 ------------------------------------ *)
\* C1: in the main loop a bash tool call is invoked only after
\* request_approval was called for the suspension of the batch that holds
\* the call and returned True.
C1_BashOnlyAfterApproval ==
  \A i \in DOMAIN execLog :
    CallById(execLog[i]).name = "bash" => ApprovedBatch(BatchOf(execLog[i]))

C1_Witness ==
  \E i \in DOMAIN execLog :
    /\ CallById(execLog[i]).name = "bash"
    /\ ApprovedBatch(BatchOf(execLog[i]))

(* ------------------------------- C2 ------------------------------------ *)
\* C2: when request_approval returned False for a suspension, no gated call
\* of it is ever invoked, and once the resume was sent each of those calls
\* has a rejection tool message in place of an execution result.
C2_RejectNeverExecutes ==
  \A k \in DOMAIN approvalLog :
    ~approvalLog[k].approved =>
      \A c \in ToolCallsIn(messages) :
        (c.name \in InterruptOn /\ BatchOf(c.id) = approvalLog[k].batch) =>
          /\ Occurrences(execLog, c.id) = 0
          /\ ResumeSent(k) =>
               \E i \in DOMAIN messages :
                 messages[i] = ToolMsg(c.id, "rejection")

(* ------------------------------- C3 ------------------------------------ *)
\* The gate has not yet looked at model message m.
GatePending(m) ==
  Streaming /\ node = "after_model" /\ m.id = LastAI(messages).id
    /\ \A i \in interrupts : i.batch # m.id

\* C3: for every batch holding a gated call exactly one interrupt
\* (PendingApproval) is raised, and no call of the batch is invoked before
\* the gate has applied the human decision to the batch.
C3_OneSuspensionNothingRunsBefore ==
  \A m \in AIMessages(messages) :
    HasGated(m) =>
      /\ Occurrences(interruptLog, m.id) = (IF GatePending(m) THEN 0 ELSE 1)
      /\ \A c \in Range(m.calls) :
           Occurrences(execLog, c.id) > 0 => DecidedBatch(m.id)

C3_Witness ==
  \E m \in AIMessages(messages) :
    /\ HasGated(m)
    /\ Len(InterruptToolCalls(m)) = 1
    /\ \E c \in Range(m.calls) :
         c.name \notin InterruptOn /\ Occurrences(execLog, c.id) = 1
    /\ Occurrences(interruptLog, m.id) = 1
    /\ DecidedBatch(m.id)

(* ------------------------------- C4 ------------------------------------ *)
\* C4: a batch without gated call never suspends the loop (no interrupt, no
\* request_approval for it), and each of its tool calls has a tool message
\* in the history the next model call receives.
C4_UngatedBatchAnswered ==
  \A m \in AIMessages(messages) :
    ~HasGated(m) =>
      /\ Occurrences(interruptLog, m.id) = 0
      /\ ~AskedBatch(m.id)
      /\ m \in AIMessages(lastModelInput) =>
           \A c \in Range(m.calls) : ResultCount(lastModelInput, c.id) >= 1

(* ------------------------------- C5 ------------------------------------ *)
\* C5: in the history every model call receives, each tool call of every
\* earlier model message has exactly one tool message.
C5_EveryCallAnsweredOnce ==
  \A c \in ToolCallsIn(lastModelInput) : ResultCount(lastModelInput, c.id) = 1

C7_AtMostOnePending == Cardinality(interrupts) <= 1

\* A second suspension on a thread whose earlier run() ended with its own
\* suspension unresolved.
C7_Witness ==
  /\ Cardinality(interrupts) = 1
  /\ runs = 2
  /\ Len(interruptLog) >= 2
  /\ ~DecidedBatch(interruptLog[Len(interruptLog) - 1])

(* ------------------------------- C8 ------------------------------------ *)
\* C8: a bash call whose suspension was resumed with approve is invoked
\* exactly once: once by the time the step that follows the resume is over,
\* and never a second time by anything later on the thread.
C8_ApprovedRunsExactlyOnce ==
  /\ \A c \in ToolCallsIn(messages) : Occurrences(execLog, c.id) <= 1
  /\ \A k \in DOMAIN approvalLog :
       (approvalLog[k].approved /\ ResumeSent(k)
          /\ ~(Streaming /\ node = "tools"
                 /\ LastAI(messages).id = approvalLog[k].batch)) =>
         \A c \in ToolCallsIn(messages) :
           (c.name = "bash" /\ Invocable(c)
              /\ BatchOf(c.id) = approvalLog[k].batch) =>
             Occurrences(execLog, c.id) = 1

\* No tool call is ever invoked twice.
AtMostOnce == \A c \in ToolCallsIn(messages) : Occurrences(execLog, c.id) <= 1

(* ------------------------------- C9 ------------------------------------ *)
\* C9: run() resumes with approve only when the prompt yielded "approve";
\* any other outcome of the prompt, None included, resumes with reject.
C9_FailClosed ==
  /\ pc = "resume" => (approved <=> decision = "approve")
  /\ pc = "rstream" =>
       (resumeLog[Len(resumeLog)].type = "approve" <=> decision = "approve")

\* The prompt was cancelled and the gate applied a reject.
C9_Witness ==
  /\ pc = "rstream"
  /\ decision = "None"
  /\ resumeLog[Len(resumeLog)].type = "reject"

(* ------------------------------- C10 ----------------------------------- *)
WellFormed(p) ==
  /\ p.value = "dict" /\ p.key /\ p.reqs # <<>>
  /\ p.reqs[1].shape = "dict" /\ p.reqs[1].hasargs
  /\ p.reqs[1].args = "dict" /\ p.reqs[1].command # Absent

\* C10: whatever the shape of the interrupt value, run() does not raise
\* while reading it, and a malformed value gives the label "Unknown Command"
\* with which request_approval is invoked.
C10_MalformedPayloadSafe ==
  /\ ~(outcome = "raised" /\ exc = "TypeError")
  /\ \A k \in DOMAIN approvalLog :
       (\E i \in interrupts : i.batch = approvalLog[k].batch /\ ~WellFormed(i.value))
         => approvalLog[k].command = UnknownCommand

(* ------------------------------- C11 ----------------------------------- *)
\* The first gated call of batch b, in the order the model returned the calls.
FirstGatedCall(b) ==
  LET m == CHOOSE a \in AIMessages(messages) : a.id = b IN InterruptToolCalls(m)[1]

\* C11: the label every request_approval call received is the 'command'
\* argument of the first gated call of the suspended batch, in the order the
\* model returned the calls ("Unknown Command" when that call has none).
C11_LabelIsFirstGatedCommand ==
  \A k \in DOMAIN approvalLog :
    LET c == FirstGatedCall(approvalLog[k].batch) IN
      approvalLog[k].command =
        (IF c.command = Absent THEN UnknownCommand ELSE c.command)

\* The prompt showed c1 for a batch of two gated calls, c1 then c2.
C11_Witness ==
  \E k \in DOMAIN approvalLog :
    \E m \in AIMessages(messages) :
      /\ m.id = approvalLog[k].batch
      /\ Len(InterruptToolCalls(m)) = 2
      /\ InterruptToolCalls(m)[1].command = "c1"
      /\ InterruptToolCalls(m)[2].command = "c2"
      /\ approvalLog[k].command = "c1"

(* ------------------------------- C12 ----------------------------------- *)
\* C12: whatever the environment does (child failure, timeout, temp-file
\* creation or write failure, unreadable data file, failure inside the
\* subagent loop), bash, run_script and data_analysis return a text: no
\* run_script call and no delegation ends by propagating an exception.
C12_ToolsNeverRaise == \A s \in Slots : dresult[s] # "raised"

(* ------------------------------- C13 ----------------------------------- *)
\* C13: a bash call whose child exits with status zero returns exactly the
\* captured stdout when it is non-empty and the sentinel "Command executed
\* successfully (no output)" when it is empty; bash returns the empty string
\* for no outcome.
C13_BashSuccessAndNeverEmpty ==
  (returned /\ tool = "bash") =>
    /\ result # <<>>
    /\ (proc.kind = "exit" /\ proc.rc = 0) =>
         result = (IF proc.stdout # <<>> THEN proc.stdout ELSE BashNoOutput)

\* A command that succeeded without output returned the sentinel.
C13_Witness ==
  /\ returned /\ tool = "bash"
  /\ proc.kind = "exit" /\ proc.rc = 0 /\ proc.stdout = <<>>
  /\ result = BashNoOutput

(* ------------------------------- C14 ----------------------------------- *)
\* The diagnostic a failed child leaves: its stderr, or its stdout when the
\* stderr is empty.
ErrorOutput(o) == IF o.stderr # <<>> THEN o.stderr ELSE o.stdout

NonZeroExit == returned /\ proc.kind = "exit" /\ proc.rc # 0

\* C14 as stated: for bash and for run_script alike, a non-zero exit gives a
\* result that contains the stderr content, or the stdout content when the
\* stderr is empty, and the numeric exit status.
C14_NonZeroHasOutputAndStatus ==
  NonZeroExit =>
    /\ Contains(result, ErrorOutput(proc))
    /\ Contains(result, Str(proc.rc))

\* C14 amended: for bash a non-zero exit gives a result that contains the
\* stderr content, or the stdout content when the stderr is empty, and the
\* numeric exit status; for run_script it gives "ERROR in <path>" followed
\* by the stderr content alone.
C14_NonZeroPerTool ==
  NonZeroExit =>
    IF tool = "bash"
    THEN /\ Contains(result, ErrorOutput(proc))
         /\ Contains(result, Str(proc.rc))
    ELSE result = <<"ERROR in ">> \o ScriptPath(1) \o <<"\n">> \o proc.stderr

\* A script that failed with status 2 and wrote its diagnostic to stdout only.
C14_Witness ==
  /\ NonZeroExit /\ tool = "run_script"
  /\ proc.rc = 2 /\ proc.stderr = <<>> /\ proc.stdout = <<"Traceback">>
  /\ ~Contains(result, proc.stdout)
  /\ ~Contains(result, Str(proc.rc))

(* ------------------------------- C15 ----------------------------------- *)
TimeoutHit == returned /\ proc.kind = "timeout"

\* C15 as stated: for bash and for run_script alike, an expired timeout gives
\* a result that contains the configured timeout of the instance and differs
\* from every result of a child that exited, with status zero or not.
C15_TimeoutDistinct ==
  TimeoutHit =>
    /\ Contains(result, Str(timeout))
    /\ \A o \in Procs : o.kind = "exit" => ToolResult(tool, o, timeout) # result

\* C15 amended: an expired timeout gives a result that contains the
\* configured timeout of the instance and differs from every result of a
\* non-zero exit and from the no-output sentinel; a zero-exit result is the
\* child's own stdout and differs from it unless that stdout is this text.
C15_TimeoutDistinctFromFailures ==
  TimeoutHit =>
    /\ Contains(result, Str(timeout))
    /\ \A o \in Procs :
         (o.kind = "exit" /\ ~(o.rc = 0 /\ o.stdout = result))
           => ToolResult(tool, o, timeout) # result

\* bash under its default limit timed out and said "30".
C15_Witness ==
  /\ TimeoutHit /\ tool = "bash" /\ timeout = BashDefaultTimeout
  /\ result = BashTimeoutText(BashDefaultTimeout)
  /\ Contains(result, <<"3", "0">>)
  /\ \E o \in Procs : o.kind = "exit" /\ o.rc = 0 /\ bash(o, timeout) = result

(* ------------------------------- C16 ----------------------------------- *)
\* C16: the script is in a file of a name no other call uses before the
\* child starts; when run_script returns after a zero exit the file is gone
\* and no longer tracked; when it returns after a non-zero exit or a timeout
\* the file exists and the returned text holds its path.
C16_ScriptArtifactLifecycle ==
  \A s \in Slots :
    /\ dpc[s] \in {"run", "unlink", "untrack"} =>
         /\ dpath[s] \in dmade[s]
         /\ \A t \in Slots \ {s} : dpath[t] # dpath[s]
    /\ dret[s].tool = "run_script" =>
         IF dret[s].child = "zero"
         THEN ~dret[s].exists /\ ~dret[s].tracked
         ELSE dret[s].exists /\ Contains(dret[s].text, ScriptPath(dret[s].path))

(* ------------------------------- C17 ----------------------------------- *)
\* C17: however _run_subagent ends, by a return or by an exception of the
\* subagent loop, at that moment no script file the delegation created is
\* left and the tracker list is empty.
C17_CleanupOnEveryExit ==
  \A s \in Slots :
    dresult[s] # "none" => (dexit[s].leftover = {} /\ dexit[s].tracked = 0)

(* ------------------------------- C18 ----------------------------------- *)
\* C18: a delegation whose file has an unsupported extension makes no model
\* call: the structured error is returned without a subagent loop.
C18_UnsupportedMakesNoModelCall ==
  \A s \in Slots : dinfo[s] = "unsupported" => dmodel[s] = 0

(* ------------------------------- C19 ----------------------------------- *)
\* C19: the messages the subagent model receives in the k-th data_analysis
\* call are those of the k-th call alone; no turn of another delegation is
\* among them.
C19_OwnHistoryOnly ==
  \A s \in Slots : dmodel[s] > 0 => dinput[s] = <<dcall[s]>>

(* ------------------------------- C20 ----------------------------------- *)
\* C20: inside a delegation nothing is gated: the subagent stream never ends
\* in an interrupt, a tool call the model asks for goes straight to the
\* tools node, and request_approval is not invoked.
C20_NoGateInDelegation ==
  /\ approvalLog = <<>>
  /\ \A s \in Slots : ~dsusp[s]

\* A bash call of a delegation ran and returned without any approval.
C20_Witness ==
  \E s \in Slots :
    /\ dret[s].tool = "bash"
    /\ dpc[s] = "model"
    /\ ~dsusp[s]
    /\ approvalLog = <<>>

(* ------------------------------- C21 ----------------------------------- *)
IsPrefix(a, b) == Len(a) <= Len(b) /\ \A i \in DOMAIN a : a[i] = b[i]

\* C21: the checkpointed message list of the thread is an append-only log:
\* the list stored before a step is a prefix of the list stored after it.
C21_AppendOnly == [][IsPrefix(messages, messages')]_vars


(* ------------------------------- C28 ----------------------------------- *)
\* The model message of id b.
MessageOfBatch(b) == CHOOSE m \in AIMessages(messages) : m.id = b

\* C28: for a suspended batch with two or more gated bash calls the single
\* human decision resolves the whole suspension: once the resume was sent the
\* gate has applied a decision to every pending call of the batch.
C28_OneDecisionResolvesBatch ==
  \A k \in DOMAIN approvalLog :
    (ResumeSent(k)
       /\ Len(InterruptToolCalls(MessageOfBatch(approvalLog[k].batch))) >= 2) =>
      DecidedBatch(approvalLog[k].batch)

(* ------------------------------- C25 ----------------------------------- *)
\* C25: delegations that overlap on one instance do not interfere: a step of
\* one delegation neither deletes nor untracks a script artifact made by
\* another delegation that is still running, and a run_script whose child
\* exited with status zero does not return an error text.
C25_NoInterference ==
  [][\A s \in Slots :
       /\ (~Free(s) /\ dpc'[s] = dpc[s]) =>
            /\ (dmade[s] \cap disk) \subseteq disk'
            /\ (dmade[s] \cap Range(tempFiles)) \subseteq Range(tempFiles')
       /\ (dret'[s].tool = "run_script" /\ dret'[s].child = "zero") =>
            ~Contains(dret'[s].text, <<"ERROR in ">>)]_vars

(* ------------------------------- C27 ----------------------------------- *)
\* C27: every script artifact on disk is listed in _temp_files (the artifact
\* of a run_script between its mkstemp and its append excepted), so a path no
\* longer listed has been deleted and no artifact is on disk untracked.
C27_TrackerInvariant ==
  \A p \in disk :
    \/ p \in Range(tempFiles)
    \/ \E s \in Slots : dpc[s] = "track" /\ dpath[s] = p

(* ------------------------------- C22 ----------------------------------- *)
\* The first index at which part stands in text, 0 if it does not.
FirstIndex(text, part) ==
  IF Contains(text, part)
  THEN 1 + CHOOSE i \in 0..(Len(text) - Len(part)) :
             /\ \A j \in 1..Len(part) : text[i + j] = part[j]
             /\ \A k \in 0..(i - 1) : \E j \in 1..Len(part) : text[k + j] # part[j]
  ELSE 0

\* The skills of the catalog on disk, and those with a header block that
\* can be read.
OnDisk == IF skillsDir = "present" THEN Present(descriptors) ELSE {}
WithHeader == {n \in OnDisk : descriptors[n] \in {"full", "noname", "nodesc"}}

\* What a summary names a skill by, and what it has to show for skill n.
Heading(n) ==
  <<"## ">> \o (IF n \in WithHeader /\ descriptors[n] # "noname" THEN NameOf(n)
               ELSE IF n \in WithHeader THEN <<"Unknown">> ELSE SkillId(n)) \o <<"\n">>
Expected(n) ==
  IF n \in WithHeader
  THEN Heading(n) \o <<"**ID**: ", Backquote>> \o SkillId(n) \o <<Backquote, "\n",
         "**Description**: ">>
       \o (IF descriptors[n] = "nodesc" THEN <<"No description">> ELSE DescriptionOf(n))
  ELSE Heading(n) \o <<"**Error loading summary**: ">>
       \o (IF descriptors[n] = "nofrontmatter"
           THEN <<"No frontmatter found in SKILL.md">> ELSE <<"Permission denied">>)

\* C22: the summaries degrade per skill: a skill without header block gives
\* an error placeholder under its id, every skill with one gives its name and
\* description, in ascending order of the ids, as list_skills() lists them;
\* a missing skills root gives an empty catalog.
C22_SummariesDegradePerSkill ==
  /\ manager = "built" => Range(skills) = OnDisk
  /\ called.op = "summaries" =>
       /\ \A n \in OnDisk : Contains(called.out, Expected(n))
       /\ \A a, b \in OnDisk :
            a < b => FirstIndex(called.out, Expected(a)) < FirstIndex(called.out, Expected(b))
       /\ OnDisk = {} => called.out = <<"No skills available.">>
  /\ called.op = "list" =>
       /\ Range(called.ids) = OnDisk
       /\ \A i, j \in DOMAIN called.ids : i < j => called.ids[i] < called.ids[j]

C22_Witness ==
  /\ called.op = "summaries"
  /\ Len(skills) >= 2
  /\ skills[1] > skills[2]
  /\ \E a, b \in OnDisk : descriptors[a] = "nofrontmatter" /\ descriptors[b] = "full"

(* ------------------------------- C23 ----------------------------------- *)
\* C23: load_skill with an id that is not in the catalog returns an error
\* text that names the requested id and lists every known id in ascending
\* order, and reads no file.
C23_UnknownIdListsCatalog ==
  (called.op = "load" /\ called.id \notin Range(skills)) =>
    /\ reads = <<>>
    /\ IsPrefix(<<"Error: Skill '">> \o SkillId(called.id) \o <<"' not found. Available skills: ">>,
                called.out)
    /\ \A n \in Range(skills) : Contains(called.out, SkillId(n))
    /\ \A a, b \in Range(skills) :
         a < b => FirstIndex(called.out, SkillId(a)) < FirstIndex(called.out, SkillId(b))

C23_Witness ==
  /\ called.op = "load"
  /\ called.id \notin Range(skills)
  /\ Len(skills) >= 2
  /\ skills[1] > skills[2]

(* ------------------------------- C29 ----------------------------------- *)
\* C29: load_skill(skill_id, file) reads only files inside the folder of the
\* known skill, whatever `file` is.
C29_ReadsStayInFolder ==
  called.op = "load" =>
    \A i \in DOMAIN reads : IsPrefix(SkillFolder(called.id), reads[i])

(* ------------------------------- C24 ----------------------------------- *)
\* C24: the pre-analysis coerces to datetime only the text columns whose
\* values parse as dates: a text column with a value that does not parse is
\* reported as object and keeps its values in the sample, a text column whose
\* values all parse is reported as datetime.
C24_OnlyCleanDatesCoerced ==
  analysed =>
    \A c \in DOMAIN frame :
      LoadedDtype(frame[c]) = "object" =>
        IF \A i \in DOMAIN frame[c] : frame[c][i] \in DateTexts
        THEN info.columns[c] = "datetime64[ns]"
        ELSE (\E i \in DOMAIN frame[c] : frame[c][i] \in OtherTexts) =>
               /\ info.columns[c] = "object"
               /\ ~privacyMode => IsPrefix(info.sample[c], frame[c])

(* ------------------------------- C26 ----------------------------------- *)
\* The title the first message of the session calls for.
FirstMessageTitle ==
  [of |-> 1,
   chars |-> IF queries[1].len > TitleLimit THEN TitleLimit ELSE queries[1].len,
   dots |-> queries[1].len > TitleLimit]

\* C26: update_title is called at most once in a CLI session, never for a
\* resumed conversation, and with the title cut from the first user message
\* of the session, also when run() raised for that message.
C26_TitleOnceFromFirstMessage ==
  /\ Len(titleCalls) <= 1
  /\ ~isNew => titleCalls = <<>>
  /\ \A i \in DOMAIN titleCalls : titleCalls[i] = FirstMessageTitle
====
